---- MODULE Spec2Model ----
(***************************************************************************)
(* Model of the aggregation and anomaly-scoring pipeline of miljodatatest: *)
(*   src/src/data.py   aggregate_data                                      *)
(*   src/src/utils.py  mad_robust, robust_z_scores                         *)
(*                                                                         *)
(* A table is a sequence of rows, a row is a record of cells.  A cell is   *)
(* a tuple: Null (pandas/numpy NaN, None, NaT) is the empty tuple, a float *)
(* is the exact fraction <<n, d>> with d >= 0 (d = 0 encodes +inf / -inf,  *)
(* as IEEE division by zero produces them), a string is <<s>>.  Floating   *)
(* point rounding is not modelled: arithmetic is exact.                    *)
(***************************************************************************)
EXTENDS Integers, Sequences, FiniteSets, TLC

VARIABLES edf, bdf, granularity, weights, out, raised, pc,
          values, use_scipy, scores, med, denom, zpc,
          gdf, top, tpc, out2

vars == <<edf, bdf, granularity, weights, out, raised, pc,
          values, use_scipy, scores, med, denom, zpc,
          gdf, top, tpc, out2>>

aggVars == <<edf, bdf, granularity, weights, out, raised, pc>>
zVars == <<values, use_scipy, scores, med, denom, zpc>>
topVars == <<gdf, top, tpc>>

(***************************************************************************)
(* Bounds of the model.                                                    *)
(***************************************************************************)
MaxReadings == 2
MaxLen == 4
MaxRows == 4
MaxShardRows == 2

(***************************************************************************)
(* Cells and float arithmetic (NaN is Null; NaN is contagious).            *)
(***************************************************************************)
Null == <<>>

Abs(n) == IF n < 0 THEN -n ELSE n

Sign(n) == IF n < 0 THEN -1 ELSE IF n > 0 THEN 1 ELSE 0

RECURSIVE Gcd(_, _)
Gcd(a, b) == IF b = 0 THEN a ELSE Gcd(b, a % b)

Norm(n, d) ==
    IF d = 0
    THEN (IF n = 0 THEN Null ELSE <<Sign(n), 0>>)
    ELSE LET g == Gcd(Abs(n), d) IN <<n \div g, d \div g>>

Q(n) == <<n, 1>>

Frac(n, d) == Norm(n, d)

IsNull(a) == a = Null

IsInf(a) == a # Null /\ a[2] = 0

FAdd(a, b) ==
    IF a = Null \/ b = Null THEN Null
    ELSE Norm(a[1] * b[2] + b[1] * a[2], a[2] * b[2])

FNeg(a) == IF a = Null THEN Null ELSE <<-a[1], a[2]>>

FSub(a, b) == FAdd(a, FNeg(b))

FMul(a, b) ==
    IF a = Null \/ b = Null THEN Null
    ELSE Norm(a[1] * b[1], a[2] * b[2])

FDiv(a, b) ==
    IF a = Null \/ b = Null THEN Null
    ELSE Norm(a[1] * b[2] * (IF b[1] < 0 THEN -1 ELSE 1), a[2] * Abs(b[1]))

FAbs(a) == IF a = Null THEN Null ELSE <<Abs(a[1]), a[2]>>

FLt(a, b) == a # Null /\ b # Null /\ a[1] * b[2] < b[1] * a[2]

FLeq(a, b) == a # Null /\ b # Null /\ a[1] * b[2] <= b[1] * a[2]

Str(s) == <<s>>

Last(s) == s[Len(s)]

Front(s) == SubSeq(s, 1, Len(s) - 1)

BoundedSeq(S, n) == UNION {[1..k -> S] : k \in 0..n}

(***************************************************************************)
(* src/src/utils.py: robust statistics.                                    *)
(***************************************************************************)
RECURSIVE Insert(_, _)
Insert(x, s) ==
    IF s = <<>> THEN <<x>>
    ELSE IF FLeq(x, Head(s)) THEN <<x>> \o s
    ELSE <<Head(s)>> \o Insert(x, Tail(s))

RECURSIVE Sorted(_)
Sorted(s) == IF s = <<>> THEN <<>> ELSE Insert(Head(s), Sorted(Tail(s)))

NotNull(v) == v # Null

\* arr[~np.isnan(arr)], and what nan_policy="omit" / np.nanmedian leave
DropNaN(arr) == SelectSeq(arr, NotNull)

\* np.median of an array without NaN; NaN for the empty array
Median(arr) ==
    LET s == Sorted(arr)
        n == Len(s)
    IN  IF n = 0 THEN Null
        ELSE IF n % 2 = 1 THEN s[(n + 1) \div 2]
        ELSE FDiv(FAdd(s[n \div 2], s[n \div 2 + 1]), Q(2))

\* np.median in the place of np.nanmedian: NaN as soon as one entry is NaN
NanMedian_PlainMedian(arr) ==
    IF \E i \in 1..Len(arr) : arr[i] = Null THEN Null ELSE Median(arr)

\* np.nanmedian(arr)
NanMedian(arr) == Median(DropNaN(arr))

AbsDev(arr, m) == [i \in 1..Len(arr) |-> FAbs(FSub(arr[i], m))]

\* the literal 1.4826
MadConsistency == Frac(7413, 5000)

\* scipy.stats.median_abs_deviation(arr, scale=1.0, nan_policy="omit")
scipy_mad(arr) ==
    LET x == DropNaN(arr)
    IN  IF Len(x) = 0 THEN Null ELSE Median(AbsDev(x, Median(x)))

\* mad_robust as defined when scipy imports
mad_robust_scipy(x) ==
    IF Len(x) = 0 THEN Q(0) ELSE FMul(MadConsistency, scipy_mad(x))

\* mad_robust as defined by the except branch
mad_robust_numpy(x) ==
    LET arr == DropNaN(x)
    IN  IF Len(arr) = 0 THEN Q(0)
        ELSE FMul(MadConsistency, Median(AbsDev(arr, Median(arr))))

\* the MAD without the factor 1.4826
mad_robust_Unscaled(x) ==
    LET arr == DropNaN(x)
    IN  IF Len(arr) = 0 THEN Q(0) ELSE Median(AbsDev(arr, Median(arr)))

mad_robust(x) == IF use_scipy THEN mad_robust_scipy(x) ELSE mad_robust_numpy(x)

ZerosLike(arr) == [i \in 1..Len(arr) |-> Q(0)]

\* the guard without np.isnan(denom)
DenomIsDegenerate_ZeroOnly(d) == d = Q(0)

DenomIsDegenerate(d) == d = Q(0) \/ d = Null

\* the locals med and denom of robust_z_scores (Null when the empty input
\* returns before they are computed)
z_med(x) == IF Len(x) = 0 THEN Null ELSE NanMedian(x)

z_denom(x) == IF Len(x) = 0 THEN Null ELSE mad_robust(x)

\* the scores as absolute deviations: |arr - med| / denom
robust_z_scores_Unsigned(x) ==
    IF Len(x) = 0 THEN <<>>
    ELSE IF DenomIsDegenerate(z_denom(x)) THEN ZerosLike(x)
    ELSE [i \in 1..Len(x) |-> FDiv(FAbs(FSub(x[i], z_med(x))), z_denom(x))]

robust_z_scores(x) ==
    IF Len(x) = 0 THEN <<>>
    ELSE IF DenomIsDegenerate(z_denom(x)) THEN ZerosLike(x)
    ELSE [i \in 1..Len(x) |-> FDiv(FSub(x[i], z_med(x)), z_denom(x))]

(***************************************************************************)
(* src/src/data.py: aggregate_data.                                        *)
(* A date is <<year, month, day>>.  A readings row has the columns date,   *)
(* building_id, kwh, hdd_17c, total_HE; a buildings row has building_id,   *)
(* area_m2, name, lat, lon.                                                *)
(***************************************************************************)
\* x["date"].values.astype("datetime64[M]")
MonthOf(d) == <<d[1], d[2], 1>>

\* x["date"].dt.year
YearOf(d) == d[1]

\* pd.to_datetime(str(year) + "-01-01")
YearStart(y) == <<y, 1, 1>>

DateLeq(a, b) ==
    \/ a[1] < b[1]
    \/ a[1] = b[1] /\ a[2] < b[2]
    \/ a[1] = b[1] /\ a[2] = b[2] /\ a[3] <= b[3]

\* building ids in the order Python compares the strings
BidOrder == <<"B1", "B2", "BX">>

BidRank(b) == CHOOSE i \in 1..Len(BidOrder) : BidOrder[i] = b

\* a group key is <<date, building_id>>; groupby sorts the keys
KeyLeq(k, l) ==
    \/ k[1] # l[1] /\ DateLeq(k[1], l[1])
    \/ k[1] = l[1] /\ BidRank(k[2]) <= BidRank(l[2])

RECURSIVE SortKeys(_)
SortKeys(S) ==
    IF S = {} THEN <<>>
    ELSE LET m == CHOOSE k \in S : \A l \in S : KeyLeq(k, l)
         IN  <<m>> \o SortKeys(S \ {m})

Column(t, c) == [i \in 1..Len(t) |-> t[i][c]]

\* a "sum" that does not skip NaN: one NaN cell makes the sum NaN
RECURSIVE AggSum_KeepNaN(_)
AggSum_KeepNaN(col) ==
    IF col = <<>> THEN Q(0) ELSE FAdd(Head(col), AggSum_KeepNaN(Tail(col)))

\* "sum" of a group: NaN is skipped, the sum of nothing is 0
RECURSIVE AggSum(_)
AggSum(col) ==
    IF col = <<>> THEN Q(0)
    ELSE IF Head(col) = Null THEN AggSum(Tail(col))
    ELSE FAdd(Head(col), AggSum(Tail(col)))

\* a "first" that takes the cell of the group's first row, NaN or not
AggFirst_FirstRow(col) == IF col = <<>> THEN Null ELSE Head(col)

\* "first" of a group: the first value that is not NaN, NaN if there is none
AggFirst(col) ==
    LET x == DropNaN(col) IN IF x = <<>> THEN Null ELSE Head(x)

\* .groupby([key, "building_id"], as_index=False)
\* .agg({"kwh": "sum", "hdd_17c": "sum", "total_HE": "first"})
\* with the key column already renamed to "date"
GroupAgg(t, keyed) ==
    LET keys == SortKeys({<<keyed[i], t[i].building_id>> : i \in 1..Len(t)})
        tagged == [i \in 1..Len(t) |-> [row |-> t[i], key |-> keyed[i]]]
    IN  [j \in 1..Len(keys) |->
            LET k == keys[j]
                grp == SelectSeq(tagged, LAMBDA e : <<e.key, e.row.building_id>> = k)
                g == [i \in 1..Len(grp) |-> grp[i].row]
            IN  [date |-> k[1],
                 building_id |-> k[2],
                 kwh |-> AggSum(Column(g, "kwh")),
                 hdd_17c |-> AggSum(Column(g, "hdd_17c")),
                 total_HE |-> AggFirst(Column(g, "total_HE"))]]

\* the Month branch
AggregateMonth(t) == GroupAgg(t, [i \in 1..Len(t) |-> MonthOf(t[i].date)])

\* the Year branch: grouped by the year number, which then becomes January 1
AggregateYear(t) == GroupAgg(t, [i \in 1..Len(t) |-> YearStart(YearOf(t[i].date))])

\* the if / elif / else on granularity
Bucketed(t, g) ==
    IF g = "Month" THEN AggregateMonth(t)
    ELSE IF g = "Year" THEN AggregateYear(t)
    ELSE t

\* the join as how="inner": a left row without a match is dropped
JoinRow_Inner(r, b) ==
    LET m == SelectSeq(b, LAMBDA x : x.building_id = r.building_id)
    IN  [i \in 1..Len(m) |->
            [date |-> r.date, building_id |-> r.building_id, kwh |-> r.kwh,
             hdd_17c |-> r.hdd_17c, total_HE |-> r.total_HE,
             area_m2 |-> m[i].area_m2, name |-> m[i].name,
             lat |-> m[i].lat, lon |-> m[i].lon]]

\* one left row joined with the rows of b that have its building_id
JoinRow(r, b) ==
    LET m == SelectSeq(b, LAMBDA x : x.building_id = r.building_id)
        with(a, n, la, lo) ==
            [date |-> r.date, building_id |-> r.building_id, kwh |-> r.kwh,
             hdd_17c |-> r.hdd_17c, total_HE |-> r.total_HE,
             area_m2 |-> a, name |-> n, lat |-> la, lon |-> lo]
    IN  IF m = <<>> THEN <<with(Null, Null, Null, Null)>>
        ELSE [i \in 1..Len(m) |-> with(m[i].area_m2, m[i].name, m[i].lat, m[i].lon)]

\* out.merge(bdf[["building_id", "area_m2", "name", "lat", "lon"]],
\*           on="building_id", how="left")
RECURSIVE Merge(_, _)
Merge(t, b) ==
    IF t = <<>> THEN <<>> ELSE JoinRow(Head(t), b) \o Merge(Tail(t), b)

\* pd.to_numeric(cell, errors="coerce"): a float stays, a missing value or a
\* text that is no number becomes NaN
ToNumeric(v) == IF Len(v) = 2 THEN v ELSE Null

Coerced(t) ==
    [i \in 1..Len(t) |->
        [t[i] EXCEPT !.kwh = ToNumeric(@), !.hdd_17c = ToNumeric(@),
                     !.total_HE = ToNumeric(@), !.area_m2 = ToNumeric(@)]]

\* the literals of  30 * out["hdd_17c"] + 0.5 * out["total_HE"]
WeightHdd == 30

WeightOccupancy == Frac(1, 2)

\* the baseline with the 0.6 of _load_synthetic as occupancy weight
ExpectedKwh_SyntheticWeight(r) ==
    FAdd(FMul(Q(WeightHdd), r.hdd_17c), FMul(Frac(3, 5), r.total_HE))

ExpectedKwh(r) ==
    FAdd(FMul(Q(WeightHdd), r.hdd_17c), FMul(WeightOccupancy, r.total_HE))

Residual(r) == FSub(r.kwh, ExpectedKwh(r))

\* the denominator used as it is
ReplaceZero_Missing(v) == v

\* series.replace(0, np.nan)
ReplaceZero(v) == IF v = Q(0) THEN Null ELSE v

KwhPerM2(r) == FDiv(r.kwh, ReplaceZero(r.area_m2))

KwhPerStudent(r) == FDiv(r.kwh, ReplaceZero(r.total_HE))

Derived(t) ==
    [i \in 1..Len(t) |->
        [date |-> t[i].date, building_id |-> t[i].building_id, kwh |-> t[i].kwh,
         hdd_17c |-> t[i].hdd_17c, total_HE |-> t[i].total_HE,
         area_m2 |-> t[i].area_m2, name |-> t[i].name, lat |-> t[i].lat,
         lon |-> t[i].lon,
         expected_kwh |-> ExpectedKwh(t[i]),
         residual |-> Residual(t[i]),
         kwh_per_m2 |-> KwhPerM2(t[i]),
         kwh_per_student |-> KwhPerStudent(t[i])]]

Scored(t) ==
    LET z == robust_z_scores(Column(t, "residual"))
    IN  [i \in 1..Len(t) |->
            [date |-> t[i].date, building_id |-> t[i].building_id, kwh |-> t[i].kwh,
             hdd_17c |-> t[i].hdd_17c, total_HE |-> t[i].total_HE,
             area_m2 |-> t[i].area_m2, name |-> t[i].name, lat |-> t[i].lat,
             lon |-> t[i].lon, expected_kwh |-> t[i].expected_kwh,
             residual |-> t[i].residual, kwh_per_m2 |-> t[i].kwh_per_m2,
             kwh_per_student |-> t[i].kwh_per_student,
             z_score |-> z[i]]]

aggregate_data(e, b, g) == Scored(Derived(Coerced(Merge(Bucketed(e, g), b))))

(***************************************************************************)
(* src/src/kpis.py: the KPI "Totalt energiforbruk (kWh)".                  *)
(***************************************************************************)
\* gdf["kwh"].sum(): Series.sum skips NaN
RECURSIVE SeriesSum(_)
SeriesSum(col) ==
    IF col = <<>> THEN Q(0)
    ELSE IF Last(col) = Null THEN SeriesSum(Front(col))
    ELSE FAdd(SeriesSum(Front(col)), Last(col))

TotalEnergy(t) == SeriesSum(Column(t, "kwh"))

(***************************************************************************)
(* src/app.py: the table "Topp tre prosjekter".                            *)
(***************************************************************************)
\* the 3 of nlargest(3)
TopN == 3

\* Series.nlargest(n) over the indices I still to pick from: the largest
\* value first, among equal values the one that comes first in the series
RECURSIVE NLargestFrom(_, _, _)
NLargestFrom(col, I, n) ==
    IF n = 0 \/ I = {} THEN <<>>
    ELSE LET best == CHOOSE i \in I :
                         \A j \in I : /\ FLeq(col[j], col[i])
                                      /\ col[j] = col[i] => i <= j
         IN  <<best>> \o NLargestFrom(col, I \ {best}, n - 1)

\* gdf["z_score"].abs().nlargest(3).index: NaN entries are never picked
NLargestIndex(t, n) ==
    LET col == [i \in 1..Len(t) |-> FAbs(t[i].z_score)]
    IN  NLargestFrom(col, {i \in 1..Len(t) : col[i] # Null}, n)

\* gdf.loc[top_idx, [...]]
TopRows(t) ==
    LET idx == NLargestIndex(t, TopN) IN [k \in 1..Len(idx) |-> t[idx[k]]]

(***************************************************************************)
(* Inputs.                                                                 *)
(***************************************************************************)
\* two days of one month, another month of that year, the same month of the
\* next year
Dates == {<<2024, 1, 5>>, <<2024, 1, 20>>, <<2024, 2, 10>>, <<2025, 1, 5>>}

\* B1 and B2 are rows of the buildings table, BX is not
ReadingBids == {"B1", "BX"}

\* the measured cells of a reading: kwh, hdd_17c, total_HE
Measures ==
    { <<Q(100), Q(10), Q(80)>>,
      <<Q(250), Null, Q(90)>>,
      <<Null, Q(20), Null>>,
      <<Q(40), Q(5), Q(0)>> }

Readings ==
    { [date |-> d, building_id |-> b, kwh |-> m[1], hdd_17c |-> m[2], total_HE |-> m[3]] :
        d \in Dates, b \in ReadingBids, m \in Measures }

\* area_m2 of B1: positive, zero, negative, a text that is no number
Areas == {Q(50), Q(0), Q(-50), Str("ukjent")}

Buildings(a) ==
    << [building_id |-> "B1", area_m2 |-> a, name |-> Str("Studenthus 1"),
        lat |-> Frac(634305, 10000), lon |-> Frac(103951, 10000)],
       [building_id |-> "B2", area_m2 |-> Q(200), name |-> Str("Studenthus 2"),
        lat |-> Frac(607957, 10000), lon |-> Frac(106916, 10000)] >>

Recognized == {"Day", "Month", "Year"}

Granularities == Recognized \cup {"Week"}

\* residual-like values handed to robust_z_scores
ZValues == {Null, Q(-50), Q(-10), Q(0), Q(10), Q(50)}

\* <<weight_hdd, weight_occupancy>> the caller wants the baseline computed
\* with: the literals of aggregate_data, or the 30 / 0.6 of _load_synthetic
DefaultWeights == <<Q(30), Frac(1, 2)>>

WantedWeights == {DefaultWeights, <<Q(30), Frac(3, 5)>>}

NoTable == <<>>

(***************************************************************************)
(* aggregate_data as a call: the caller holds edf and bdf, picks a         *)
(* granularity, and gets a table back (the function has no raise and no    *)
(* branch that leaves without a table).  weights is what the caller would  *)
(* like the baseline to use; the signature (edf, bdf, granularity) gives   *)
(* it no way in, so the call does not read it.                             *)
(***************************************************************************)
Init ==
    /\ edf \in BoundedSeq(Readings, MaxReadings)
    /\ bdf \in {Buildings(a) : a \in Areas}
    /\ granularity = "unset"
    /\ weights \in WantedWeights
    /\ out = NoTable
    /\ raised = FALSE
    /\ pc = "ready"
    /\ values = <<>>
    /\ use_scipy = TRUE
    /\ scores = <<>>
    /\ med = Null
    /\ denom = Null
    /\ zpc = "idle"
    /\ gdf = <<>>
    /\ top = <<>>
    /\ tpc = "idle"
    /\ out2 = NoTable

AggregateData ==
    /\ pc = "ready"
    /\ \E g \in Granularities :
          /\ granularity' = g
          /\ out' = aggregate_data(edf, bdf, g)
    /\ raised' = FALSE
    /\ pc' = "returned"
    /\ UNCHANGED <<edf, bdf, weights>>
    /\ UNCHANGED zVars
    /\ UNCHANGED topVars
    /\ UNCHANGED out2

Next == AggregateData

Spec == Init /\ [][Next]_vars

(***************************************************************************)
(* robust_z_scores as a call, and the call repeated on the same array with *)
(* one NaN entry more or one NaN entry less.                               *)
(***************************************************************************)
InitZ ==
    /\ values \in BoundedSeq(ZValues, MaxLen)
    /\ use_scipy \in BOOLEAN
    /\ scores = <<>>
    /\ med = Null
    /\ denom = Null
    /\ zpc = "ready"
    /\ edf = <<>>
    /\ bdf = Buildings(Q(50))
    /\ granularity = "unset"
    /\ weights = DefaultWeights
    /\ out = NoTable
    /\ raised = FALSE
    /\ pc = "idle"
    /\ gdf = <<>>
    /\ top = <<>>
    /\ tpc = "idle"
    /\ out2 = NoTable

Call(x, label) ==
    /\ values' = x
    /\ scores' = robust_z_scores(x)
    /\ med' = z_med(x)
    /\ denom' = z_denom(x)
    /\ zpc' = label
    /\ UNCHANGED use_scipy
    /\ UNCHANGED aggVars
    /\ UNCHANGED topVars
    /\ UNCHANGED out2

Score == zpc = "ready" /\ Call(values, "returned")

InsertAt(s, i, v) == SubSeq(s, 1, i - 1) \o <<v>> \o SubSeq(s, i, Len(s))

RemoveAt(s, i) == SubSeq(s, 1, i - 1) \o SubSeq(s, i + 1, Len(s))

ScoreWithNaNAdded ==
    /\ zpc \in {"returned", "rescored"}
    /\ Len(values) < MaxLen
    /\ \E i \in 1..(Len(values) + 1) : Call(InsertAt(values, i, Null), "rescored")

ScoreWithNaNRemoved ==
    /\ zpc \in {"returned", "rescored"}
    /\ \E i \in 1..Len(values) :
          values[i] = Null /\ Call(RemoveAt(values, i), "rescored")

NextZ == Score \/ ScoreWithNaNAdded \/ ScoreWithNaNRemoved

SpecZ == InitZ /\ [][NextZ]_vars

(***************************************************************************)
(* Properties of aggregate_data.  They are stated over the input and the   *)
(* returned table, with their own bucketing, sums and group sets.          *)
(***************************************************************************)
Returned == pc = "returned"

\* the bucket the specification assigns a date to
BucketOf(d, g) ==
    IF g = "Month" THEN <<d[1], d[2], 1>>
    ELSE IF g = "Year" THEN <<d[1], 1, 1>>
    ELSE d

\* the readings (indices of edf) of building b that fall into bucket k
GroupOf(k, b) ==
    {i \in 1..Len(edf) : edf[i].building_id = b /\ BucketOf(edf[i].date, granularity) = k}

InputPairs == {<<BucketOf(edf[i].date, granularity), edf[i].building_id>> : i \in 1..Len(edf)}

OutputPairs == {<<out[j].date, out[j].building_id>> : j \in 1..Len(out)}

RowsOf(k, b) == {j \in 1..Len(out) : out[j].date = k /\ out[j].building_id = b}

KnownIds == {bdf[i].building_id : i \in 1..Len(bdf)}

\* the sum of the non-null cells c of the readings I, as a fraction
RECURSIVE TotalOf(_, _)
TotalOf(I, c) ==
    IF I = {} THEN Q(0)
    ELSE LET i == CHOOSE x \in I : TRUE
             rest == TotalOf(I \ {i}, c)
             v == edf[i][c]
         IN  IF v = Null THEN rest
             ELSE Frac(v[1] * rest[2] + rest[1] * v[2], v[2] * rest[2])

\* the capacity of the earliest reading of I that has one
FirstCapacity(I) ==
    LET J == {i \in I : edf[i].total_HE # Null}
    IN  IF J = {} THEN Null
        ELSE edf[CHOOSE i \in J : \A j \in J : i <= j].total_HE

\* C1: aggregate_data raises, and returns no table, exactly when granularity
\* is not one of Day, Month, Year; for a recognized value it returns a table
\* without raising.
C1_InvalidGranularityRaises ==
    Returned =>
        IF granularity \in Recognized
        THEN ~raised
        ELSE raised /\ out = NoTable

\* C2: at every granularity the output has exactly one row per
\* (building_id, bucket) pair present in the input, also when several
\* readings share a (date, building_id).
C2_OneRowPerPair ==
    (Returned /\ granularity \in Recognized) =>
        /\ OutputPairs = InputPairs
        /\ \A p \in InputPairs : Cardinality(RowsOf(p[1], p[2])) = 1

\* C3: at Month and Year granularity every reading falls into exactly one
\* output row, that of the first day of its month or of January 1 of its
\* year; the row's kwh and hdd_17c are the sums over the readings of its
\* group, its capacity is the first non-null capacity of the group; readings
\* of one building within one year give one Year row with the total kwh.
C3_BucketSums ==
    (Returned /\ granularity \in {"Month", "Year"}) =>
        /\ \A i \in 1..Len(edf) :
              Cardinality({j \in 1..Len(out) :
                  /\ out[j].building_id = edf[i].building_id
                  /\ out[j].date = BucketOf(edf[i].date, granularity)}) = 1
        /\ \A j \in 1..Len(out) :
              LET I == GroupOf(out[j].date, out[j].building_id)
              IN  /\ I # {}
                  /\ out[j].date[3] = 1
                  /\ granularity = "Year" => out[j].date[2] = 1
                  /\ out[j].kwh = TotalOf(I, "kwh")
                  /\ out[j].hdd_17c = TotalOf(I, "hdd_17c")
                  /\ out[j].total_HE = FirstCapacity(I)
        /\ ( /\ granularity = "Year"
             /\ edf # <<>>
             /\ \A i \in 1..Len(edf) :
                   /\ edf[i].building_id = edf[1].building_id
                   /\ edf[i].date[1] = edf[1].date[1] )
           => /\ Len(out) = 1
              /\ out[1].kwh = TotalOf(1..Len(edf), "kwh")

\* a Year call on two readings of one building, of different months of one
\* year, both with energy and with different capacities
C3_Witness ==
    /\ Returned
    /\ granularity = "Year"
    /\ Len(edf) = 2
    /\ edf[1].building_id = edf[2].building_id
    /\ edf[1].date[1] = edf[2].date[1]
    /\ edf[1].date[2] # edf[2].date[2]
    /\ edf[1].total_HE = Q(90)
    /\ edf[2].total_HE = Q(80)
    /\ Len(out) = 1
    /\ out[1].kwh = Q(350)
    /\ out[1].total_HE = Q(90)

\* C4: a building without readings never appears in the output; a reading
\* whose building_id is not in the buildings table is kept, with null
\* area_m2, name, lat and lon; the join neither drops nor adds groups.
C4_LeftJoin ==
    Returned =>
        /\ \A b \in KnownIds :
              (\A i \in 1..Len(edf) : edf[i].building_id # b)
                  => \A j \in 1..Len(out) : out[j].building_id # b
        /\ \A i \in 1..Len(edf) :
              edf[i].building_id \notin KnownIds =>
                  \E j \in 1..Len(out) :
                      /\ out[j].building_id = edf[i].building_id
                      /\ out[j].date = BucketOf(edf[i].date, granularity)
        /\ \A j \in 1..Len(out) :
              out[j].building_id \notin KnownIds =>
                  /\ out[j].area_m2 = Null
                  /\ out[j].name = Null
                  /\ out[j].lat = Null
                  /\ out[j].lon = Null
        /\ \A j \in 1..Len(out) :
              out[j].building_id \in KnownIds => out[j].name # Null
        /\ OutputPairs = InputPairs
        /\ Len(out) = IF granularity \in {"Month", "Year"}
                      THEN Cardinality(InputPairs)
                      ELSE Len(edf)

\* a call on a reading of the unknown building BX and a reading of B1: BX is
\* in the output without geometry, B1 with it, B2 is not in the output
C4_Witness ==
    /\ Returned
    /\ Len(edf) = 2
    /\ Len(out) = 2
    /\ \E j \in 1..Len(out) : out[j].building_id = "BX" /\ out[j].area_m2 = Null
                              /\ out[j].name = Null /\ out[j].kwh = Q(250)
    /\ \E j \in 1..Len(out) : out[j].building_id = "B1" /\ out[j].name # Null
    /\ "B2" \in KnownIds
    /\ \A j \in 1..Len(out) : out[j].building_id # "B2"

\* the cells of the input the baseline of output row j rests on are all
\* null: c of the row itself (Day), c of every reading of its group
InputNull(j, c) ==
    IF granularity \in {"Month", "Year"}
    THEN \A i \in GroupOf(out[j].date, out[j].building_id) : edf[i][c] = Null
    ELSE edf[j][c] = Null

\* C5: at every granularity, when the heating-degree-day input or the
\* capacity input of a row's baseline is null (for an aggregated row: null in
\* every reading of its group), expected_kwh and residual of the row are null.
C5_NullBaselineStaysNull ==
    (Returned /\ granularity \in Recognized) =>
        \A j \in 1..Len(out) :
            (InputNull(j, "hdd_17c") \/ InputNull(j, "total_HE")) =>
                /\ out[j].expected_kwh = Null
                /\ out[j].residual = Null

\* C6: kwh_per_m2 is null whenever area_m2 is zero or null, kwh_per_student
\* is null whenever the capacity is zero or null; no ratio is infinite and
\* the call does not raise.
C6_RatioNullOnZeroOrNull ==
    Returned =>
        /\ ~raised
        /\ \A j \in 1..Len(out) :
              /\ out[j].area_m2 \in {Q(0), Null} => out[j].kwh_per_m2 = Null
              /\ out[j].total_HE \in {Q(0), Null} => out[j].kwh_per_student = Null
              /\ ~IsInf(out[j].kwh_per_m2)
              /\ ~IsInf(out[j].kwh_per_student)

\* a returned row with energy, a zero area and a zero capacity, and both of
\* its ratios null
C6_Witness ==
    /\ Returned
    /\ \E j \in 1..Len(out) :
          /\ out[j].kwh = Q(40)
          /\ out[j].area_m2 = Q(0)
          /\ out[j].total_HE = Q(0)
          /\ out[j].kwh_per_m2 = Null
          /\ out[j].kwh_per_student = Null

\* kwh / d when d > 0, null otherwise (also null when kwh is null)
RatioOrNull(kwh, d) ==
    IF d # Null /\ d[1] > 0 /\ kwh # Null
    THEN Frac(kwh[1] * d[2], kwh[2] * d[1])
    ELSE Null

\* C7: kwh_per_m2 is kwh / area_m2 if area_m2 > 0 and null otherwise,
\* kwh_per_student is kwh / capacity if capacity > 0 and null otherwise; a
\* negative denominator gives null.
C7_RatioOnlyForPositive ==
    Returned =>
        \A j \in 1..Len(out) :
            /\ out[j].kwh_per_m2 = RatioOrNull(out[j].kwh, out[j].area_m2)
            /\ out[j].kwh_per_student = RatioOrNull(out[j].kwh, out[j].total_HE)

\* w[1] * hdd + w[2] * capacity, as a fraction
Baseline(w, hdd, cap) ==
    Frac(w[1][1] * hdd[1] * w[2][2] * cap[2] + w[2][1] * cap[1] * w[1][2] * hdd[2],
         w[1][2] * hdd[2] * w[2][2] * cap[2])

Minus(a, b) == Frac(a[1] * b[2] - b[1] * a[2], a[2] * b[2])

Complete(r) == r.kwh # Null /\ r.hdd_17c # Null /\ r.total_HE # Null

ZReturned == zpc \in {"returned", "rescored"}

Less(a, b) == a[1] * b[2] < b[1] * a[2]

\* the k-th smallest of the values f[i], i in I
KthSmallest(I, f, k) ==
    LET v == CHOOSE w \in {f[i] : i \in I} :
                 /\ Cardinality({i \in I : Less(f[i], w)}) < k
                 /\ Cardinality({i \in I : ~Less(w, f[i])}) >= k
    IN  v

\* the median of the values f[i], i in I (I not empty)
MedianOf(I, f) ==
    LET n == Cardinality(I)
    IN  IF n % 2 = 1 THEN KthSmallest(I, f, (n + 1) \div 2)
        ELSE LET a == KthSmallest(I, f, n \div 2)
                 b == KthSmallest(I, f, n \div 2 + 1)
             IN  Frac(a[1] * b[2] + b[1] * a[2], 2 * a[2] * b[2])

NonNull(x) == {i \in 1..Len(x) : x[i] # Null}

AbsMinus(a, b) == Frac(Abs(a[1] * b[2] - b[1] * a[2]), a[2] * b[2])

\* median and MAD of the non-null entries of x (which has one)
MedOf(x) == MedianOf(NonNull(x), x)

MadOf(x) == MedianOf(NonNull(x), [i \in NonNull(x) |-> AbsMinus(x[i], MedOf(x))])

\* C9: the scores have the length and order of values (empty for empty);
\* when 1.4826 * MAD is nonzero, the score of each non-null entry is
\* (values[i] - m) / (1.4826 * MAD), m and MAD being the median and the
\* median absolute deviation of the non-null entries.
C9_ScoreFormula ==
    ZReturned =>
        /\ Len(scores) = Len(values)
        /\ values = <<>> => scores = <<>>
        /\ (NonNull(values) # {} /\ MadOf(values) # Q(0)) =>
              \A i \in NonNull(values) :
                  LET d == Minus(values[i], MedOf(values))
                      mad == MadOf(values)
                  IN  scores[i] = Frac(d[1] * 5000 * mad[2], d[2] * 7413 * mad[1])

\* a call on an array with a NaN entry that returns a nonzero score
C9_Witness ==
    /\ zpc = "returned"
    /\ Len(values) >= 3
    /\ \E i \in 1..Len(values) : values[i] = Null
    /\ \E i \in 1..Len(values) : scores[i] # Null /\ scores[i] # Q(0)

SomeNonNull(x) == NonNull(x) # {}

\* a step from one call to the next differs by one NaN entry; with a
\* non-null entry present, both calls use the same median and MAD
SameMedianAndMad ==
    (ZReturned /\ zpc' = "rescored" /\ SomeNonNull(values)) =>
        (med' = med /\ denom' = denom)

\* C10 as claimed: for every input, also one whose scale is zero or
\* undefined, a NaN entry at index i gets a NaN score at index i, and adding
\* or removing NaN entries does not change the median or MAD used.
C10_NullAlwaysNull ==
    [][ /\ zpc' \in {"returned", "rescored"} =>
              \A i \in 1..Len(values') : values'[i] = Null => scores'[i] = Null
        /\ SameMedianAndMad ]_vars

\* C10 as amended: a NaN entry at index i gets a NaN score at index i when
\* the scale is nonzero, and the score 0 when the scale is zero or undefined;
\* adding or removing NaN entries does not change the median or MAD used.
C10_NullPropagation ==
    [][ /\ zpc' \in {"returned", "rescored"} =>
              \A i \in 1..Len(values') :
                  values'[i] = Null =>
                      scores'[i] = IF denom' = Q(0) \/ denom' = Null THEN Q(0) ELSE Null
        /\ SameMedianAndMad ]_vars

\* a repeated call, on an array with a NaN entry and a nonzero scale: the NaN
\* entry is scored NaN, another entry is scored nonzero
C10_Witness ==
    /\ zpc = "rescored"
    /\ denom # Null
    /\ denom # Q(0)
    /\ \E i \in 1..Len(values) : values[i] = Null /\ scores[i] = Null
    /\ \E i \in 1..Len(values) : scores[i] # Null /\ scores[i] # Q(0)

\* the scale 1.4826 * MAD of x is zero or undefined: no non-null entry, or a
\* MAD of zero
ScaleDegenerate(x) == NonNull(x) = {} \/ MadOf(x) = Q(0)

\* C11: whenever the scale 1.4826 * MAD is zero or undefined (all non-null
\* values equal, more than half of them equal to the median, or no non-null
\* value), robust_z_scores returns zeros of the input's length, never NaN or
\* an infinite value, with the scipy mad_robust and with the numpy one.
C11_DegenerateScaleGivesZeros ==
    (ZReturned /\ ScaleDegenerate(values)) =>
        /\ Len(scores) = Len(values)
        /\ \A i \in 1..Len(scores) : scores[i] = Q(0)

\* a call under the scipy mad_robust on NaN entries only, scored zero
C11_WitnessAllNaN ==
    /\ ZReturned
    /\ use_scipy
    /\ Len(values) >= 2
    /\ NonNull(values) = {}
    /\ \A i \in 1..Len(scores) : scores[i] = Q(0)

\* a call on values of which more than half equal the median and one is an
\* outlier (10, 10, 10, 50 in some order), scored zero, under the numpy
\* mad_robust
C11_Witness ==
    /\ ZReturned
    /\ ~use_scipy
    /\ Len(values) = 4
    /\ Cardinality({i \in 1..4 : values[i] = Q(10)}) = 3
    /\ \E i \in 1..4 : values[i] = Q(50)
    /\ \A i \in 1..4 : scores[i] = Q(0)

Finite(x) == \A i \in 1..Len(x) : x[i] # Null

\* C12: for a non-empty sequence of finite values with a nonzero MAD, the
\* median of the scores is 0, a smaller value has a smaller score and equal
\* values have equal scores.
C12_ZeroMedianAndOrder ==
    (ZReturned /\ values # <<>> /\ Finite(values) /\ MadOf(values) # Q(0)) =>
        /\ Finite(scores)
        /\ MedianOf(1..Len(scores), scores) = Q(0)
        /\ \A i, j \in 1..Len(values) :
              /\ Less(values[i], values[j]) => Less(scores[i], scores[j])
              /\ values[i] = values[j] => scores[i] = scores[j]

\* a call on four finite values, not all different, with scores on both
\* sides of zero
C12_Witness ==
    /\ ZReturned
    /\ Len(values) = 4
    /\ Finite(values)
    /\ MadOf(values) # Q(0)
    /\ \E i, j \in 1..4 : i # j /\ values[i] = values[j]
    /\ \E i \in 1..4 : Less(scores[i], Q(0))
    /\ \E i \in 1..4 : Less(Q(0), scores[i])

(***************************************************************************)
(* The top-three table of main: gdf is a scored table (its columns date,   *)
(* building_id, residual, z_score; z_score is robust_z_scores of the       *)
(* residual column), top the rows main displays.                           *)
(***************************************************************************)
TopDates == {<<2024, 1, 1>>, <<2024, 2, 1>>}

TopResiduals == {Null, Q(-10), Q(10), Q(50)}

ScoredRows ==
    { [date |-> d, building_id |-> b, residual |-> r] :
        d \in TopDates, b \in ReadingBids, r \in TopResiduals }

WithScores(t) ==
    LET z == robust_z_scores(Column(t, "residual"))
    IN  [i \in 1..Len(t) |->
            [date |-> t[i].date, building_id |-> t[i].building_id,
             residual |-> t[i].residual, z_score |-> z[i]]]

InitTop ==
    /\ use_scipy = TRUE
    /\ gdf \in {WithScores(t) : t \in BoundedSeq(ScoredRows, MaxRows)}
    /\ top = <<>>
    /\ tpc = "ready"
    /\ values = <<>>
    /\ scores = <<>>
    /\ med = Null
    /\ denom = Null
    /\ zpc = "idle"
    /\ edf = <<>>
    /\ bdf = Buildings(Q(50))
    /\ granularity = "unset"
    /\ weights = DefaultWeights
    /\ out = NoTable
    /\ raised = FALSE
    /\ pc = "idle"
    /\ out2 = NoTable

ShowTopThree ==
    /\ tpc = "ready"
    /\ top' = TopRows(gdf)
    /\ tpc' = "shown"
    /\ UNCHANGED gdf
    /\ UNCHANGED aggVars
    /\ UNCHANGED zVars
    /\ UNCHANGED out2

NextTop == ShowTopThree

SpecTop == InitTop /\ [][NextTop]_vars

Shown == tpc = "shown"

HasScore(r) == r.z_score # Null

AbsScore(r) == <<Abs(r.z_score[1]), r.z_score[2]>>

\* row r comes before row e in the order building_id, then date
BeforeByIdThenDate(r, e) ==
    \/ BidRank(r.building_id) < BidRank(e.building_id)
    \/ /\ r.building_id = e.building_id
       /\ r.date # e.date
       /\ DateLeq(r.date, e.date)

\* the rows of gdf that are not shown (the rows of gdf are told apart by
\* their position, top by its content)
ExcludedRows ==
    {gdf[i] : i \in {j \in 1..Len(gdf) : \A k \in 1..Len(top) : top[k] # gdf[j]}}

\* C13: the top-3 selection over a scored table (with at least 3 scored
\* rows) returns exactly 3 rows, each with |z_score| at least that of every
\* excluded row, ties in |z_score| broken by building_id and then date.
C13_TopThreeByIdThenDate ==
    (Shown /\ Cardinality({i \in 1..Len(gdf) : HasScore(gdf[i])}) >= 3) =>
        /\ Len(top) = 3
        /\ \A k \in 1..Len(top) : \A e \in ExcludedRows :
              HasScore(e) =>
                  /\ ~Less(AbsScore(top[k]), AbsScore(e))
                  /\ (AbsScore(top[k]) = AbsScore(e)
                        /\ <<top[k].building_id, top[k].date>> # <<e.building_id, e.date>>)
                     => BeforeByIdThenDate(top[k], e)

(***************************************************************************)
(* aggregate_data called once on the whole input, then again on the input  *)
(* split into building_id partitions (the outputs concatenated), or on the *)
(* input rows in another order.  out2 is the result of the second run.     *)
(***************************************************************************)
ShardDates == {<<2024, 1, 5>>, <<2024, 2, 10>>}

ShardMeasures ==
    { <<Q(100), Q(10), Q(80)>>,
      <<Q(250), Q(20), Q(90)>>,
      <<Null, Q(20), Null>> }

ShardReadings ==
    { [date |-> d, building_id |-> b, kwh |-> m[1], hdd_17c |-> m[2], total_HE |-> m[3]] :
        d \in ShardDates, b \in ReadingBids, m \in ShardMeasures }

InitShard ==
    /\ edf \in BoundedSeq(ShardReadings, MaxShardRows)
    /\ bdf = Buildings(Q(50))
    /\ granularity = "unset"
    /\ weights = DefaultWeights
    /\ out = NoTable
    /\ raised = FALSE
    /\ pc = "ready"
    /\ values = <<>>
    /\ use_scipy = TRUE
    /\ scores = <<>>
    /\ med = Null
    /\ denom = Null
    /\ zpc = "idle"
    /\ gdf = <<>>
    /\ top = <<>>
    /\ tpc = "idle"
    /\ out2 = NoTable

\* the ways to split the building ids into partitions, in the order the
\* partitions' outputs are concatenated
ShardPlans ==
    {p \in BoundedSeq(SUBSET ReadingBids \ {{}}, Cardinality(ReadingBids)) :
        /\ UNION {p[i] : i \in 1..Len(p)} = ReadingBids
        /\ \A i, j \in 1..Len(p) : i # j => p[i] \cap p[j] = {}}

RowsOfIds(t, ids) == SelectSeq(t, LAMBDA r : r.building_id \in ids)

RECURSIVE Concatenated(_)
Concatenated(ts) == IF ts = <<>> THEN <<>> ELSE Head(ts) \o Concatenated(Tail(ts))

AggregateShards ==
    /\ pc = "returned"
    /\ \E p \in ShardPlans :
          out2' = Concatenated([i \in 1..Len(p) |->
                      aggregate_data(RowsOfIds(edf, p[i]), RowsOfIds(bdf, p[i]),
                                     granularity)])
    /\ pc' = "sharded"
    /\ UNCHANGED <<edf, bdf, granularity, weights, out, raised>>
    /\ UNCHANGED zVars
    /\ UNCHANGED topVars

RowOrders(n) == {f \in [1..n -> 1..n] : \A i, j \in 1..n : f[i] = f[j] => i = j}

AggregatePermuted ==
    /\ pc = "returned"
    /\ \E f \in RowOrders(Len(edf)) :
          out2' = aggregate_data([i \in 1..Len(edf) |-> edf[f[i]]], bdf, granularity)
    /\ pc' = "permuted"
    /\ UNCHANGED <<edf, bdf, granularity, weights, out, raised>>
    /\ UNCHANGED zVars
    /\ UNCHANGED topVars

NextShard == AggregateData \/ AggregateShards \/ AggregatePermuted

SpecShard == InitShard /\ [][NextShard]_vars

\* the tables a and b hold the same rows, each as often, in any order
SameRows(a, b) ==
    /\ Len(a) = Len(b)
    /\ \A i \in 1..Len(a) :
          Cardinality({j \in 1..Len(a) : a[j] = a[i]})
              = Cardinality({j \in 1..Len(b) : b[j] = a[i]})

WithoutScore(t) == [i \in 1..Len(t) |-> [t[i] EXCEPT !.z_score = Null]]

\* within every (bucket, building_id) group of the input the non-null
\* capacities are equal (nothing to ask where no groups are formed)
CapacityConstant ==
    granularity \in {"Month", "Year"} =>
        \A i, j \in 1..Len(edf) :
            ( /\ edf[i].building_id = edf[j].building_id
              /\ BucketOf(edf[i].date, granularity) = BucketOf(edf[j].date, granularity)
              /\ edf[i].total_HE # Null
              /\ edf[j].total_HE # Null )
            => edf[i].total_HE = edf[j].total_HE

\* C14 as claimed: aggregating building_id partitions separately and
\* concatenating gives the same rows, z_score included, as one call on the
\* whole input; permuting the input rows only permutes the output rows and
\* changes no value.
C14_ShardedAndPermutedSame ==
    pc \in {"sharded", "permuted"} => SameRows(out, out2)

\* C14 as amended: aggregating building_id partitions separately and
\* concatenating gives the same rows as one call on the whole input in every
\* column but z_score (which is computed from the residuals of all rows of a
\* call); permuting the input rows only permutes the output rows and changes
\* no value when the non-null capacities within each group are equal.
C14_ShardedSameButScore ==
    /\ pc = "sharded" => SameRows(WithoutScore(out), WithoutScore(out2))
    /\ (pc = "permuted" /\ CapacityConstant) => SameRows(out, out2)

\* a Month run split into the partitions B1 and BX: the same rows come back,
\* with other scores
C14_Witness ==
    /\ pc = "sharded"
    /\ granularity = "Month"
    /\ Len(out) = 2
    /\ \E i \in 1..Len(out) : out[i].building_id = "B1"
    /\ \E i \in 1..Len(out) : out[i].building_id = "BX"
    /\ SameRows(WithoutScore(out), WithoutScore(out2))
    /\ ~SameRows(out, out2)

\* a second Year run on two different readings of one group, one of them
\* without capacity: the same row comes back
C14_WitnessPermuted ==
    /\ pc = "permuted"
    /\ granularity = "Year"
    /\ Len(edf) = 2
    /\ Len(out) = 1
    /\ edf[1].total_HE = Null
    /\ edf[2].total_HE # Null
    /\ out2 = out

\* C15: for a fixed readings table (building_id unique in the buildings
\* table) the total of kwh over the output rows is the total of the non-null
\* kwh of the input readings, hence the same at Day, Month and Year
\* granularity: bucketing and the join lose no energy and count none twice.
C15_TotalEnergyPreserved ==
    (Returned /\ granularity \in Recognized) =>
        TotalEnergy(out) = TotalOf(1..Len(edf), "kwh")

\* a Month call on two readings of one month of B1, one of them without kwh,
\* in a table where B1 is known: the one output row carries the 250 kWh
C15_Witness ==
    /\ Returned
    /\ granularity = "Month"
    /\ Len(edf) = 2
    /\ edf[1].kwh = Null
    /\ edf[2].kwh = Q(250)
    /\ edf[1].date # edf[2].date
    /\ Len(out) = 1
    /\ out[1].building_id = "B1"
    /\ TotalEnergy(out) = Q(250)

====
